---------------------------- MODULE Spec2Model ----------------------------
(***************************************************************************)
(* A model of the rate-limiter library: the in-memory token bucket         *)
(* (limiter.TokenBucket), the in-memory sliding window counter             *)
(* (limiter.SlidingWindow) and the Redis-backed token bucket               *)
(* (limiter.RedisTokenBucket) with its Lua script, and the HTTP handler     *)
(* of middleware.New that puts one of them in front of a next handler.     *)
(*                                                                         *)
(* Time is counted in ticks: a tick is the resolution of both the clock    *)
(* (time.Now) and of time.Duration, and TicksPerSec ticks make one second. *)
(* float64 values are modelled as exact rationals [n, d] in lowest terms.  *)
(***************************************************************************)
EXTENDS Integers, Sequences, FiniteSets, TLC

VARIABLES
    now,        \* the wall clock read by time.Now(), in ticks
    limit,      \* the Limit every caller passes (fixed for one behaviour)
    buckets,    \* TokenBucket.buckets   : key -> Absent | bucket
    windows,    \* SlidingWindow.windows : key -> Absent | windowState
    store,      \* the Redis keyspace    : key -> Absent | hash record
    pc,         \* per caller: its position in the Allow call it is in
    req,        \* per caller: the key (and script arguments) of its call
    reply,      \* per caller: what tokenBucketScript.Run(...).Result() gave
    out,        \* per caller: the (Result, error) pair Allow returned
    ran,        \* per caller: what the run of its script found (history)
    res,        \* per key: the Result the last local Allow returned
    inst,       \* per key: the calls made at the current instant (history)
    lastCall,   \* per key: the time of the previous call (history)
    first,      \* per key: the first call and the admissions of its period
    mu,         \* the sync.Mutex of the local strategy: its holder, or Free
    loc,        \* per caller: the table entry its local Allow works on
    cfg,        \* the middleware.Config the process runs with
    http        \* per caller: what the handler did with its request

vars == <<now, limit, buckets, windows, store, pc, req, reply, out, ran,
          res, inst, lastCall, first, mu, loc, cfg, http>>

---------------------------------------------------------------------------
(* Bounds of the model.                                                    *)

\* the clock runs from 0 to MaxTime ticks
MaxTime == 6
\* at most MaxDenied denied calls per key are observed at one instant
MaxDenied == 2
\* at most MaxRuns script runs per key are observed at one instant
MaxRuns == 3
\* ticks per second (time.Second in ticks)
TicksPerSec == 2
\* the clock of the behaviours with two keys runs from 0 to PairMaxTime
PairMaxTime == 3

\* the keys of the tables, and the keys the callers of a behaviour present
Keys == {"k1", "k2"}
CallKeys == {"k1"}
\* the concurrent callers of RedisTokenBucket.Allow
Callers == {"c1", "c2"}
Absent == [absent |-> TRUE]

---------------------------------------------------------------------------
(* float64 arithmetic, as exact rationals in lowest terms.                 *)

Abs(x) == IF x < 0 THEN -x ELSE x

RECURSIVE GCD(_, _)
GCD(a, b) == IF b = 0 THEN a ELSE GCD(b, a % b)

\* the rational n/d (d # 0) in lowest terms with a positive denominator
Rat(n, d) ==
    LET g == GCD(Abs(n), Abs(d))
        s == IF d < 0 THEN -1 ELSE 1
    IN  [n |-> (s * n) \div g, d |-> (s * d) \div g]

FromInt(i) == [n |-> i, d |-> 1]
RAdd(x, y) == Rat(x.n * y.d + y.n * x.d, x.d * y.d)
RSub(x, y) == Rat(x.n * y.d - y.n * x.d, x.d * y.d)
RMul(x, y) == Rat(x.n * y.n, x.d * y.d)
RDiv(x, y) == Rat(x.n * y.d, x.d * y.n)
RLt(x, y)  == x.n * y.d < y.n * x.d
RLeq(x, y) == x.n * y.d <= y.n * x.d
RMin(x, y) == IF RLt(y, x) THEN y ELSE x
RMax(x, y) == IF RLt(x, y) THEN y ELSE x
\* Go's int(f) and time.Duration(f): truncation toward zero
Trunc(x)   == IF x.n >= 0 THEN x.n \div x.d ELSE -((-x.n) \div x.d)

\* time.Duration.Seconds(): a duration in ticks as float64 seconds
Seconds(d) == Rat(d, TicksPerSec)
\* time.Duration(sec * float64(time.Second)): float64 seconds as a duration
ToDuration(sec) == Trunc(RMul(sec, FromInt(TicksPerSec)))

---------------------------------------------------------------------------
(* Limits (limiter.Limit) and results (limiter.Result).                    *)

Limit(r, p, b) == [Rate |-> r, Period |-> p, Burst |-> b]

\* the limits of the token bucket behaviours: 1/2, 3/2 and 2/3 tokens a tick
TBLimits == {Limit(1, 2, 2), Limit(3, 2, 1), Limit(2, 3, 3)}
\* Limit{Rate: 5, Period: 10 * time.Second, Burst: 10}
TBScenarioLimit == Limit(5, 10 * TicksPerSec, 10)

Result(a, r, d) == [Allowed |-> a, Remaining |-> r, ResetAfter |-> d]
NoResult == [none |-> TRUE]

\* the calls of one key at the current instant: how many, how many of them
\* denied, the entry the first of them found and how long the key had been
\* idle before it
NoInst == [calls |-> 0, denied |-> 0, pre |-> Absent, idle |-> 0]
\* the first call of one key: its time, and the calls and the admissions made
\* less than one period after it
NoFirst == [at |-> -1, calls |-> 0, admitted |-> 0]

---------------------------------------------------------------------------
(* limiter.TokenBucket (limiter.go).                                       *)

\* &bucket{tokens: float64(limit.Burst), lastUpdate: now}
NewBucket(lim, t) == [tokens |-> FromInt(lim.Burst), lastUpdate |-> t]

\* tokensPerSec := float64(limit.Rate) / limit.Period.Seconds()
TokensPerSec(lim) == RDiv(FromInt(lim.Rate), Seconds(lim.Period))

\* Refill capping the stored tokens before the refill is added
RefillCappedFirst(b, lim, t) ==
    LET elapsed == Seconds(t - b.lastUpdate)
        burst   == FromInt(lim.Burst)
        capped  == IF RLt(burst, b.tokens) THEN burst ELSE b.tokens
    IN  [tokens     |-> RAdd(capped, RMul(elapsed, TokensPerSec(lim))),
         lastUpdate |-> t]

\* Refill without the cap at limit.Burst
RefillUncapped(b, lim, t) ==
    LET elapsed == Seconds(t - b.lastUpdate)
    IN  [tokens     |-> RAdd(b.tokens, RMul(elapsed, TokensPerSec(lim))),
         lastUpdate |-> t]

\* Refill adding limit.Rate tokens a second, whatever limit.Period is
RefillWholeRate(b, lim, t) ==
    LET elapsed == Seconds(t - b.lastUpdate)
        raised  == RAdd(b.tokens, RMul(elapsed, FromInt(lim.Rate)))
        burst   == FromInt(lim.Burst)
    IN  [tokens     |-> IF RLt(burst, raised) THEN burst ELSE raised,
         lastUpdate |-> t]

\* b.tokens += elapsed * tokensPerSec, capped at limit.Burst; lastUpdate = now
Refill(b, lim, t) ==
    LET elapsed == Seconds(t - b.lastUpdate)
        raised  == RAdd(b.tokens, RMul(elapsed, TokensPerSec(lim)))
        burst   == FromInt(lim.Burst)
    IN  [tokens     |-> IF RLt(burst, raised) THEN burst ELSE raised,
         lastUpdate |-> t]

\* WaitFor with the operands of the subtraction swapped
WaitForNegated(tokens, lim) ==
    ToDuration(RDiv(RSub(tokens, FromInt(1)), TokensPerSec(lim)))

\* WaitFor multiplying by tokensPerSec where the code divides
WaitForTimesRate(tokens, lim) ==
    ToDuration(RMul(RSub(FromInt(1), tokens), TokensPerSec(lim)))

\* waitSec := (1.0 - b.tokens) / tokensPerSec, as a time.Duration
WaitFor(tokens, lim) ==
    ToDuration(RDiv(RSub(FromInt(1), tokens), TokensPerSec(lim)))

\* the admission test on a refilled bucket: the bucket and the Result
Take(b, lim) ==
    IF RLeq(FromInt(1), b.tokens)
    THEN LET left == RSub(b.tokens, FromInt(1))
         IN  [bucket |-> [b EXCEPT !.tokens = left],
              result |-> Result(TRUE, Trunc(left), 0)]
    ELSE [bucket |-> b,
          result |-> Result(FALSE, 0, WaitFor(b.tokens, lim))]

\* what the history variables record of an Allow call for key k that found
\* entry pre and returned result r
Observe(k, pre, r) ==
    /\ res' = [res EXCEPT ![k] = r]
    /\ inst' = [inst EXCEPT ![k] =
          IF inst[k].calls = 0
          THEN [calls  |-> 1,
                denied |-> IF r.Allowed THEN 0 ELSE 1,
                pre    |-> pre,
                idle   |-> IF lastCall[k] < 0 THEN 0 ELSE now - lastCall[k]]
          ELSE [inst[k] EXCEPT !.calls = @ + 1,
                               !.denied = IF r.Allowed THEN @ ELSE @ + 1]]
    /\ lastCall' = [lastCall EXCEPT ![k] = now]
    /\ first' = [first EXCEPT ![k] =
          IF first[k].at < 0
          THEN [at |-> now, calls |-> 1,
                admitted |-> IF r.Allowed THEN 1 ELSE 0]
          ELSE IF now < first[k].at + limit.Period
               THEN [@ EXCEPT !.calls = @ + 1,
                              !.admitted = IF r.Allowed THEN @ + 1 ELSE @]
               ELSE @]

\* TBAllow keeping one bucket for all the keys
TBAllowShared(k) ==
    /\ inst[k].denied < MaxDenied
    /\ LET b0 == IF buckets[k] = Absent THEN NewBucket(limit, now)
                 ELSE buckets[k]
           t  == Take(Refill(b0, limit, now), limit)
       IN  /\ buckets' = [j \in Keys |-> t.bucket]
           /\ Observe(k, buckets[k], t.result)
    /\ UNCHANGED <<now, limit, windows, store, pc, req, reply, out, ran,
                   mu, loc, cfg, http>>

\* TokenBucket.Allow(ctx, key, limit): one critical section under tb.mu
TBAllow(k) ==
    /\ inst[k].denied < MaxDenied
    /\ LET b0 == IF buckets[k] = Absent THEN NewBucket(limit, now)
                 ELSE buckets[k]
           t  == Take(Refill(b0, limit, now), limit)
       IN  /\ buckets' = [buckets EXCEPT ![k] = t.bucket]
           /\ Observe(k, buckets[k], t.result)
    /\ UNCHANGED <<now, limit, windows, store, pc, req, reply, out, ran,
                   mu, loc, cfg, http>>

---------------------------------------------------------------------------
(* limiter.SlidingWindow (sliding_window.go).                              *)

\* the limits of the sliding window behaviours (Burst is not read)
SWLimits == {Limit(1, 2, 0), Limit(2, 3, 0), Limit(3, 2, 0)}
\* Limit{Rate: 100, Period: 60 * time.Second}
SWScenarioLimit == Limit(100, 60 * TicksPerSec, 0)

\* &windowState{currWindowStart: now, currCount: 0, prevCount: 0}
NewWindow(t) == [currWindowStart |-> t, currCount |-> 0, prevCount |-> 0]

\* Roll starting the new window at the time of the call
RollToNow(w, lim, t) ==
    LET elapsed == t - w.currWindowStart
        windowsPassed == elapsed \div lim.Period
    IN  IF elapsed >= lim.Period
        THEN [prevCount |-> IF windowsPassed = 1 THEN w.currCount ELSE 0,
              currCount |-> 0,
              currWindowStart |-> t]
        ELSE w

\* Roll keeping the old count as prevCount however many windows passed
RollKeepsPrev(w, lim, t) ==
    LET elapsed == t - w.currWindowStart
        windowsPassed == elapsed \div lim.Period
    IN  IF elapsed >= lim.Period
        THEN [prevCount |-> w.currCount,
              currCount |-> 0,
              currWindowStart |-> w.currWindowStart
                                    + windowsPassed * lim.Period]
        ELSE w

\* the roll-forward taken when elapsed >= limit.Period
Roll(w, lim, t) ==
    LET elapsed == t - w.currWindowStart
        windowsPassed == elapsed \div lim.Period
    IN  IF elapsed >= lim.Period
        THEN [prevCount |-> IF windowsPassed = 1 THEN w.currCount ELSE 0,
              currCount |-> 0,
              currWindowStart |-> w.currWindowStart
                                    + windowsPassed * lim.Period]
        ELSE w

\* Weight giving the previous window no weight
WeightNone(w, lim, t) == FromInt(0)

\* weight := math.Max(0, (windowSize-timeInCurrent)/windowSize)
Weight(w, lim, t) ==
    LET timeInCurrent == Seconds(t - w.currWindowStart)
        windowSize    == Seconds(lim.Period)
    IN  RMax(FromInt(0), RDiv(RSub(windowSize, timeInCurrent), windowSize))

\* estimatedCount := float64(w.prevCount)*weight + float64(w.currCount)
EstimatedCount(w, lim, t) ==
    RAdd(RMul(FromInt(w.prevCount), Weight(w, lim, t)), FromInt(w.currCount))

\* UntilWindowEnd with the operands of Sub swapped
SinceWindowEnd(w, lim, t) == t - (w.currWindowStart + lim.Period)

\* the time to the end of the current window
UntilWindowEnd(w, lim, t) == (w.currWindowStart + lim.Period) - t

\* Count admitting while estimatedCount <= limit.Rate
CountInclusive(w, lim, t) ==
    LET est == EstimatedCount(w, lim, t)
        rem == Trunc(RSub(RSub(FromInt(lim.Rate), est), FromInt(1)))
    IN  IF RLeq(est, FromInt(lim.Rate))
        THEN [window |-> [w EXCEPT !.currCount = @ + 1],
              result |-> Result(TRUE, IF rem < 0 THEN 0 ELSE rem, 0)]
        ELSE [window |-> w,
              result |-> Result(FALSE, 0, UntilWindowEnd(w, lim, t))]

\* the admission test on a rolled window: the window and the Result
Count(w, lim, t) ==
    LET est == EstimatedCount(w, lim, t)
        rem == Trunc(RSub(RSub(FromInt(lim.Rate), est), FromInt(1)))
    IN  IF RLt(est, FromInt(lim.Rate))
        THEN [window |-> [w EXCEPT !.currCount = @ + 1],
              result |-> Result(TRUE, IF rem < 0 THEN 0 ELSE rem, 0)]
        ELSE [window |-> w,
              result |-> Result(FALSE, 0, UntilWindowEnd(w, lim, t))]

\* SlidingWindow.Allow(ctx, key, limit): one critical section under sw.mu
SWAllow(k) ==
    /\ inst[k].denied < MaxDenied
    /\ LET w0 == IF windows[k] = Absent THEN NewWindow(now) ELSE windows[k]
           c  == Count(Roll(w0, limit, now), limit, now)
       IN  /\ windows' = [windows EXCEPT ![k] = c.window]
           /\ Observe(k, windows[k], c.result)
    /\ UNCHANGED <<now, limit, buckets, store, pc, req, reply, out, ran,
                   mu, loc, cfg, http>>

---------------------------------------------------------------------------
(* The clock.                                                              *)

\* time passes: time.Now() returns a later instant
Tick ==
    /\ now < MaxTime
    /\ now' = now + 1
    /\ inst' = [k \in Keys |-> NoInst]
    /\ UNCHANGED <<limit, buckets, windows, store, pc, req, reply, out,
                   ran, res, lastCall, first,
                   mu, loc, cfg, http>>

---------------------------------------------------------------------------
(* limiter.RedisTokenBucket and tokenBucketScript.                         *)

\* Limit{Rate: 10, Period: time.Second, Burst: 10}
RedisScenarioLimit == Limit(10, TicksPerSec, 10)
RedisLimits == {Limit(1, 2, 2), Limit(3, 2, 1), RedisScenarioLimit}

\* PEXPIRE key 60000: the record's time to live, in ticks
ExpireAfter == 60 * TicksPerSec

\* the global variables Redis binds for a script run by EVAL / EVALSHA
\* (Script.Run); reading any other global aborts the script with the error
\* "Script attempted to access nonexistent global variable"
LuaGlobals == {"KEYS", "ARGV", "redis", "math", "tonumber"}

\* the global the script reads its arguments from: tonumber(ARGS[1]) ...
ScriptArgsGlobal == "ARGS"

\* args := []interface{}{ratePerSec, limit.Burst, now, 1}, now in seconds
ScriptArgs(lim, t) ==
    [rate      |-> RDiv(FromInt(lim.Rate), Seconds(lim.Period)),
     capacity  |-> FromInt(lim.Burst),
     now       |-> Seconds(t),
     requested |-> FromInt(1)]

\* a key whose time to live has run out is gone
Live(rec, t) == IF rec # Absent /\ t < rec.expireAt THEN rec ELSE Absent

\* HGET tokens / last_updated, or capacity / now when the key has no record
ReadRecord(rec, a) ==
    IF rec = Absent
    THEN [tokens |-> a.capacity, last_updated |-> a.now]
    ELSE [tokens |-> rec.tokens, last_updated |-> rec.last_updated]

\* filled_tokens := min(capacity, last_tokens + max(0, now-last_updated)*rate)
FilledTokens(r, a) ==
    LET delta == RMax(FromInt(0), RSub(a.now, r.last_updated))
    IN  RMin(a.capacity, RAdd(r.tokens, RMul(delta, a.rate)))

\* a Lua number in a script's return table reaches the client as an integer
LuaToInteger(x) == Trunc(x)

\* the body of the script on record rec at server time t: the record it
\* leaves and the error or the table {allowed, remaining, reset_after}
ScriptBody(rec, a, t) ==
    LET filled == FilledTokens(ReadRecord(rec, a), a)
    IN  IF RLeq(a.requested, filled)
        THEN LET remaining == RSub(filled, a.requested)
             IN  [rec  |-> [tokens |-> remaining, last_updated |-> a.now,
                            expireAt |-> t + ExpireAfter],
                  err  |-> "none",
                  vals |-> <<1, LuaToInteger(remaining), 0>>]
        ELSE [rec  |-> rec,
              err  |-> "none",
              vals |-> <<0, LuaToInteger(filled),
                         LuaToInteger(RDiv(RSub(a.requested, filled),
                                           a.rate))>>]

\* one atomic run of tokenBucketScript by the Redis server
tokenBucketScript(rec, a, t) ==
    IF ScriptArgsGlobal \in LuaGlobals
    THEN ScriptBody(rec, a, t)
    ELSE [rec |-> rec, err |-> "script", vals |-> <<>>]

\* toFloat(v) for the int64 the reply carries
ToFloat(v) == FromInt(v)

\* AllowReturn failing closed: an error becomes a denial
AllowReturnFailClosed(rp) ==
    IF rp.err # "none"
    THEN [result |-> Result(FALSE, 0, 0), err |-> "none"]
    ELSE [result |-> Result(rp.vals[1] = 1, Trunc(FromInt(rp.vals[2])),
                            IF rp.vals[3] > 0
                            THEN ToDuration(FromInt(rp.vals[3])) ELSE 0),
          err |-> "none"]

\* what Allow returns for the reply of Run(...).Result(): (nil, err), or
\* the Result built from the three values
AllowReturn(rp) ==
    IF rp.err # "none"
    THEN [result |-> NoResult, err |-> rp.err]
    ELSE LET resetAfterVal == ToFloat(rp.vals[3])
         IN  [result |-> Result(rp.vals[1] = 1,
                                Trunc(ToFloat(rp.vals[2])),
                                IF RLt(FromInt(0), resetAfterVal)
                                THEN ToDuration(resetAfterVal) ELSE 0),
              err |-> "none"]

NoReq == [none |-> TRUE]
\* the failures of the call to the backend other than a script error: the
\* connection fails or times out, or the caller's context is cancelled
TransportErrors == {"io", "ctx"}

\* Allow computes the arguments and sends the script call
RedisSend(c, k) ==
    /\ pc[c] = "idle"
    /\ inst[k].calls < MaxRuns
    /\ pc' = [pc EXCEPT ![c] = "sent"]
    /\ req' = [req EXCEPT ![c] = [key |-> k, at |-> now,
                                  args |-> ScriptArgs(limit, now)]]
    /\ UNCHANGED <<now, limit, buckets, windows, store, reply, out, ran,
                   res, inst, lastCall, first,
                   mu, loc, cfg, http>>

\* the server runs the script of caller c, atomically
RedisEval(c) ==
    /\ pc[c] = "sent"
    /\ LET k   == req[c].key
           rec == Live(store[k], now)
           run == tokenBucketScript(rec, req[c].args, now)
       IN  /\ store' = [store EXCEPT ![k] = run.rec]
           /\ reply' = [reply EXCEPT ![c] = [err |-> run.err,
                                             vals |-> run.vals]]
           /\ inst' = [inst EXCEPT ![k] =
                 IF inst[k].calls = 0
                 THEN [calls |-> 1, denied |-> 0, pre |-> rec, idle |-> 0]
                 ELSE [inst[k] EXCEPT !.calls = @ + 1]]
           /\ ran' = [ran EXCEPT ![c] = [at |-> now, found |-> rec,
                                         nth |-> inst[k].calls + 1]]
    /\ pc' = [pc EXCEPT ![c] = "replied"]
    /\ UNCHANGED <<now, limit, buckets, windows, req, out,
                   res, lastCall, first,
                   mu, loc, cfg, http>>

\* the call fails in transport: before the script ran, or with its reply lost
RedisFail(c, e) ==
    /\ pc[c] \in {"sent", "replied"}
    /\ pc[c] = "replied" => reply[c].err \notin TransportErrors
    /\ reply' = [reply EXCEPT ![c] = [err |-> e, vals |-> <<>>]]
    /\ pc' = [pc EXCEPT ![c] = "replied"]
    /\ UNCHANGED <<now, limit, buckets, windows, store, req, out, ran,
                   res, inst, lastCall, first,
                   mu, loc, cfg, http>>

\* Allow returns
RedisReturn(c) ==
    /\ pc[c] = "replied"
    /\ out' = [out EXCEPT ![c] = AllowReturn(reply[c])]
    /\ pc' = [pc EXCEPT ![c] = "done"]
    /\ UNCHANGED <<now, limit, buckets, windows, store, req, reply, ran,
                   res, inst, lastCall, first,
                   mu, loc, cfg, http>>

\* the caller takes its result and is ready for another call
RedisReset(c) ==
    /\ pc[c] = "done"
    /\ pc' = [pc EXCEPT ![c] = "idle"]
    /\ req' = [req EXCEPT ![c] = NoReq]
    /\ reply' = [reply EXCEPT ![c] = NoReq]
    /\ out' = [out EXCEPT ![c] = NoReq]
    /\ ran' = [ran EXCEPT ![c] = NoReq]
    /\ UNCHANGED <<now, limit, buckets, windows, store,
                   res, inst, lastCall, first,
                   mu, loc, cfg, http>>

---------------------------------------------------------------------------
(* middleware.Config (middleware.go) and the mutex of a local strategy.    *)

\* the Strategy implementations a Config can name as its Limiter
Strategies == {"TokenBucket", "SlidingWindow", "RedisTokenBucket"}
\* a handler field of the Config is nil or a handler of the application
Handlers == {"nil", "custom"}

\* Config{Limiter: l, ErrorHandler: eh, RateLimitHandler: rh}
Config(l, eh, rh) ==
    [Limiter |-> l, ErrorHandler |-> eh, RateLimitHandler |-> rh]

\* mu sync.Mutex, unlocked
Free == "free"

\* CanLock with no mutual exclusion: Lock never waits
CanLockAlways(m) == TRUE

\* mu.Lock() returns only when no caller holds the mutex
CanLock(m) == m = Free

---------------------------------------------------------------------------
(* The local strategies under concurrent callers: Allow in its steps.      *)

\* what the history variables record of the critical section that caller c
\* enters for key k, finding entry pre: it is the nth of the current instant
Entered(c, k, pre) ==
    /\ inst' = [inst EXCEPT ![k] =
          IF inst[k].calls = 0
          THEN [calls |-> 1, denied |-> 0, pre |-> pre, idle |-> 0]
          ELSE [inst[k] EXCEPT !.calls = @ + 1]]
    /\ ran' = [ran EXCEPT ![c] = [at |-> now, found |-> pre,
                                  nth |-> inst[k].calls + 1]]

\* tb.mu.Lock(): caller c enters TokenBucket.Allow for key k
TBLock(c, k) ==
    /\ cfg.Limiter = "TokenBucket"
    /\ pc[c] = "idle"
    /\ inst[k].calls < MaxRuns
    /\ CanLock(mu)
    /\ mu' = c
    /\ pc' = [pc EXCEPT ![c] = "locked"]
    /\ req' = [req EXCEPT ![c] = [key |-> k]]
    /\ UNCHANGED <<now, limit, buckets, windows, store, reply, out, ran,
                   res, inst, lastCall, first, loc, cfg, http>>

\* now := time.Now(); b, exists := tb.buckets[key], the bucket made and
\* stored when the key has none; c reads the fields of b
TBLoad(c) ==
    /\ cfg.Limiter = "TokenBucket"
    /\ pc[c] = "locked"
    /\ LET k == req[c].key
           b == IF buckets[k] = Absent THEN NewBucket(limit, now)
                ELSE buckets[k]
       IN  /\ buckets' = [buckets EXCEPT ![k] = b]
           /\ loc' = [loc EXCEPT ![c] = [at |-> now, entry |-> b]]
           /\ Entered(c, k, buckets[k])
    /\ pc' = [pc EXCEPT ![c] = "loaded"]
    /\ UNCHANGED <<now, limit, windows, store, req, reply, out,
                   res, lastCall, first, mu, cfg, http>>

\* the refill and the admission test, written to the fields of b
TBUpdate(c) ==
    /\ cfg.Limiter = "TokenBucket"
    /\ pc[c] = "loaded"
    /\ LET t == Take(Refill(loc[c].entry, limit, loc[c].at), limit)
       IN  /\ buckets' = [buckets EXCEPT ![req[c].key] = t.bucket]
           /\ out' = [out EXCEPT ![c] = [result |-> t.result,
                                         err |-> "none"]]
    /\ pc' = [pc EXCEPT ![c] = "updated"]
    /\ UNCHANGED <<now, limit, windows, store, req, reply, ran,
                   res, inst, lastCall, first, mu, loc, cfg, http>>

\* sw.mu.Lock(): caller c enters SlidingWindow.Allow for key k
SWLock(c, k) ==
    /\ cfg.Limiter = "SlidingWindow"
    /\ pc[c] = "idle"
    /\ inst[k].calls < MaxRuns
    /\ CanLock(mu)
    /\ mu' = c
    /\ pc' = [pc EXCEPT ![c] = "locked"]
    /\ req' = [req EXCEPT ![c] = [key |-> k]]
    /\ UNCHANGED <<now, limit, buckets, windows, store, reply, out, ran,
                   res, inst, lastCall, first, loc, cfg, http>>

\* now := time.Now(); w, exists := sw.windows[key], the window made and
\* stored when the key has none; c reads the fields of w
SWLoad(c) ==
    /\ cfg.Limiter = "SlidingWindow"
    /\ pc[c] = "locked"
    /\ LET k == req[c].key
           w == IF windows[k] = Absent THEN NewWindow(now) ELSE windows[k]
       IN  /\ windows' = [windows EXCEPT ![k] = w]
           /\ loc' = [loc EXCEPT ![c] = [at |-> now, entry |-> w]]
           /\ Entered(c, k, windows[k])
    /\ pc' = [pc EXCEPT ![c] = "loaded"]
    /\ UNCHANGED <<now, limit, buckets, store, req, reply, out,
                   res, lastCall, first, mu, cfg, http>>

\* the roll-forward and the admission test, written to the fields of w
SWUpdate(c) ==
    /\ cfg.Limiter = "SlidingWindow"
    /\ pc[c] = "loaded"
    /\ LET r == Count(Roll(loc[c].entry, limit, loc[c].at), limit, loc[c].at)
       IN  /\ windows' = [windows EXCEPT ![req[c].key] = r.window]
           /\ out' = [out EXCEPT ![c] = [result |-> r.result,
                                         err |-> "none"]]
    /\ pc' = [pc EXCEPT ![c] = "updated"]
    /\ UNCHANGED <<now, limit, buckets, store, req, reply, ran,
                   res, inst, lastCall, first, mu, loc, cfg, http>>

\* the deferred mu.Unlock(), and Allow returns
LocalReturn(c) ==
    /\ pc[c] = "updated"
    /\ mu' = Free
    /\ pc' = [pc EXCEPT ![c] = "done"]
    /\ UNCHANGED <<now, limit, buckets, windows, store, req, reply, out,
                   ran, res, inst, lastCall, first, loc, cfg, http>>

\* the caller is ready for another call
CallerReset(c) ==
    /\ pc[c] \in {"done", "served"}
    /\ pc' = [pc EXCEPT ![c] = "idle"]
    /\ req' = [req EXCEPT ![c] = NoReq]
    /\ reply' = [reply EXCEPT ![c] = NoReq]
    /\ out' = [out EXCEPT ![c] = NoReq]
    /\ ran' = [ran EXCEPT ![c] = NoReq]
    /\ loc' = [loc EXCEPT ![c] = NoReq]
    /\ http' = [http EXCEPT ![c] = NoReq]
    /\ UNCHANGED <<now, limit, buckets, windows, store,
                   res, inst, lastCall, first, mu, cfg>>

---------------------------------------------------------------------------
(* The handler that middleware.New returns (middleware.go).                *)

StatusInternalServerError == 500
StatusTooManyRequests == 429

\* strconv.Itoa(n): the decimal digits of n, after "-" when n is negative
RECURSIVE Digits(_)
Digits(n) == IF n < 10 THEN <<n>> ELSE Append(Digits(n \div 10), n % 10)
Itoa(n) == IF n < 0 THEN <<"-">> \o Digits(-n) ELSE Digits(n)

\* strconv.Itoa(int(res.ResetAfter.Seconds()))
RetryAfter(d) == Itoa(Trunc(Seconds(d)))

\* what a request is answered with. by: the code that wrote the response;
\* status: the status it set (0: left to the handler that ran); retryAfter:
\* the Retry-After header (<<>>: not set); next: the calls of next.ServeHTTP
Response(by, status, retryAfter, next) ==
    [by |-> by, status |-> status, retryAfter |-> retryAfter, next |-> next]

\* Respond serving the request whenever Allow returned no error
RespondIgnoringDenial(cf, o) ==
    IF o.err # "none"
    THEN IF cf.ErrorHandler # "nil"
         THEN Response("ErrorHandler", 0, <<>>, 0)
         ELSE Response("http.Error", StatusInternalServerError, <<>>, 0)
    ELSE Response("next", 0, <<>>, 1)

\* the handler's code after cfg.Limiter.Allow returned o = (res, err)
Respond(cf, o) ==
    IF o.err # "none"
    THEN IF cf.ErrorHandler # "nil"
         THEN Response("ErrorHandler", 0, <<>>, 0)
         ELSE Response("http.Error", StatusInternalServerError, <<>>, 0)
    ELSE IF ~o.result.Allowed
    THEN IF cf.RateLimitHandler # "nil"
         THEN Response("RateLimitHandler", 0, <<>>, 0)
         ELSE Response("http.Error", StatusTooManyRequests,
                       RetryAfter(o.result.ResetAfter), 0)
    ELSE Response("next", 0, <<>>, 1)

\* the handler answers the request of caller c, whose Allow has returned
MWRespond(c) ==
    /\ pc[c] = "done"
    /\ http' = [http EXCEPT ![c] = Respond(cfg, out[c])]
    /\ pc' = [pc EXCEPT ![c] = "served"]
    /\ UNCHANGED <<now, limit, buckets, windows, store, req, reply, out,
                   ran, res, inst, lastCall, first, mu, loc, cfg>>

---------------------------------------------------------------------------
(* Initial states and specifications.                                      *)

\* NewTokenBucket(), NewSlidingWindow(), an empty Redis keyspace, no call
InitState ==
    /\ now = 0
    /\ buckets = [k \in Keys |-> Absent]
    /\ windows = [k \in Keys |-> Absent]
    /\ store = [k \in Keys |-> Absent]
    /\ pc = [c \in Callers |-> "idle"]
    /\ req = [c \in Callers |-> NoReq]
    /\ reply = [c \in Callers |-> NoReq]
    /\ out = [c \in Callers |-> NoReq]
    /\ ran = [c \in Callers |-> NoReq]
    /\ res = [k \in Keys |-> NoResult]
    /\ inst = [k \in Keys |-> NoInst]
    /\ lastCall = [k \in Keys |-> -1]
    /\ first = [k \in Keys |-> NoFirst]
    /\ mu = Free
    /\ loc = [c \in Callers |-> NoReq]
    /\ http = [c \in Callers |-> NoReq]

\* callers of one TokenBucket
InitTB ==
    /\ InitState
    /\ cfg = Config("TokenBucket", "nil", "nil")
    /\ limit \in TBLimits \cup {TBScenarioLimit}
NextTB == Tick \/ \E k \in CallKeys : TBAllow(k)
SpecTB == InitTB /\ [][NextTB]_vars

\* callers of one SlidingWindow
InitSW ==
    /\ InitState
    /\ cfg = Config("SlidingWindow", "nil", "nil")
    /\ limit \in SWLimits \cup {SWScenarioLimit}
NextSW == Tick \/ \E k \in CallKeys : SWAllow(k)
SpecSW == InitSW /\ [][NextSW]_vars

\* concurrent callers of one RedisTokenBucket
InitRedis ==
    /\ InitState
    /\ cfg = Config("RedisTokenBucket", "nil", "nil")
    /\ limit \in RedisLimits
NextRedis ==
    \/ Tick
    \/ \E c \in Callers :
          \/ \E k \in CallKeys : RedisSend(c, k)
          \/ RedisEval(c)
          \/ \E e \in TransportErrors : RedisFail(c, e)
          \/ RedisReturn(c)
          \/ RedisReset(c)
SpecRedis == InitRedis /\ [][NextRedis]_vars

\* limit := cfg.LimitFunc(r): the next requests come with another Limit
SetLimit(l) ==
    /\ l # limit
    /\ limit' = l
    /\ UNCHANGED <<now, buckets, windows, store, pc, req, reply, out, ran,
                   res, inst, lastCall, first, mu, loc, cfg, http>>

\* callers of one TokenBucket whose Limit differs from call to call
InitTBVar ==
    /\ InitState
    /\ cfg = Config("TokenBucket", "nil", "nil")
    /\ limit \in TBLimits
NextTBVar ==
    \/ Tick
    \/ \E k \in CallKeys : TBAllow(k)
    \/ \E l \in TBLimits : SetLimit(l)
SpecTBVar == InitTBVar /\ [][NextTBVar]_vars

\* the limits the callers of a strategy pass
LimitsOf(l) ==
    IF l = "TokenBucket" THEN TBLimits \cup {TBScenarioLimit}
    ELSE IF l = "SlidingWindow" THEN SWLimits
    ELSE RedisLimits

\* the caller of the behaviours that make one call at a time
OneCaller == {"c1"}

\* a process with one limiter, of any of the three strategies, called
\* directly (cfg.Limiter.Allow)
InitAny ==
    /\ InitState
    /\ cfg \in {Config(l, "nil", "nil") : l \in Strategies}
    /\ limit \in LimitsOf(cfg.Limiter)
NextAny ==
    \/ Tick
    \/ cfg.Limiter = "TokenBucket" /\ \E k \in CallKeys : TBAllow(k)
    \/ cfg.Limiter = "SlidingWindow" /\ \E k \in CallKeys : SWAllow(k)
    \/ \E c \in OneCaller :
          \/ /\ cfg.Limiter = "RedisTokenBucket"
             /\ \E k \in CallKeys : RedisSend(c, k)
          \/ RedisEval(c)
          \/ \E e \in TransportErrors : RedisFail(c, e)
          \/ RedisReturn(c)
          \/ RedisReset(c)
SpecAny == InitAny /\ [][NextAny]_vars

\* a server whose handler is the middleware around next: the requests are
\* handled one after the other, each by the limiter of the Config
InitMW ==
    /\ InitState
    /\ cfg \in {Config(l, eh, rh) :
                  l \in Strategies, eh \in Handlers, rh \in Handlers}
    /\ limit \in LimitsOf(cfg.Limiter)
NextMW ==
    \/ Tick
    \/ \E c \in OneCaller :
          \/ \E k \in CallKeys : TBLock(c, k)
          \/ TBLoad(c)
          \/ TBUpdate(c)
          \/ \E k \in CallKeys : SWLock(c, k)
          \/ SWLoad(c)
          \/ SWUpdate(c)
          \/ LocalReturn(c)
          \/ /\ cfg.Limiter = "RedisTokenBucket"
             /\ \E k \in CallKeys : RedisSend(c, k)
          \/ RedisEval(c)
          \/ \E e \in TransportErrors : RedisFail(c, e)
          \/ RedisReturn(c)
          \/ MWRespond(c)
          \/ pc[c] = "served" /\ CallerReset(c)
SpecMW == InitMW /\ [][NextMW]_vars

\* concurrent callers of one TokenBucket, or of one SlidingWindow
InitConc ==
    /\ InitState
    /\ cfg \in {Config(l, "nil", "nil") :
                  l \in {"TokenBucket", "SlidingWindow"}}
    /\ limit \in IF cfg.Limiter = "TokenBucket" THEN TBLimits ELSE SWLimits
NextConc ==
    \/ Tick
    \/ \E c \in Callers :
          \/ \E k \in CallKeys : TBLock(c, k)
          \/ TBLoad(c)
          \/ TBUpdate(c)
          \/ \E k \in CallKeys : SWLock(c, k)
          \/ SWLoad(c)
          \/ SWUpdate(c)
          \/ LocalReturn(c)
          \/ pc[c] = "done" /\ CallerReset(c)
SpecConc == InitConc /\ [][NextConc]_vars

\* callers of one TokenBucket, or of one SlidingWindow, with two keys
PairLimits(l) ==
    IF l = "TokenBucket" THEN {Limit(3, 2, 1)} ELSE {Limit(1, 2, 0)}
InitPair ==
    /\ InitState
    /\ cfg \in {Config(l, "nil", "nil") :
                  l \in {"TokenBucket", "SlidingWindow"}}
    /\ limit \in PairLimits(cfg.Limiter)
NextPair ==
    \/ now < PairMaxTime /\ Tick
    \/ \E k \in Keys :
          \/ cfg.Limiter = "TokenBucket" /\ TBAllow(k)
          \/ cfg.Limiter = "SlidingWindow" /\ SWAllow(k)
SpecPair == InitPair /\ [][NextPair]_vars

---------------------------------------------------------------------------
(* Properties of the Redis token bucket.                                   *)

Min(a, b) == IF a < b THEN a ELSE b

\* caller c has returned from a call for key k that it sent at the current
\* instant, that the server ran among the first N runs of this instant, and
\* whose reply reached it
RacedNow(c, k) ==
    /\ pc[c] = "done"
    /\ req[c].key = k /\ req[c].at = now
    /\ ran[c] # NoReq /\ ran[c].at = now
    /\ ran[c].nth <= Cardinality(Callers)
    /\ reply[c].err \notin TransportErrors

\* the callers whose Allow returned a Result with Allowed = a
Returned(a) ==
    {c \in Callers : pc[c] = "done" /\ out[c].err = "none"
                       /\ out[c].result.Allowed = a}

\* C1: when all N callers race on one key at one instant, starting from no
\* record, exactly min(N, Burst) of them are admitted and the other
\* N - min(N, Burst) are denied.
C1_ExactlyCapacityAdmitted ==
    \A k \in CallKeys :
        ( /\ \A c \in Callers : RacedNow(c, k)
          /\ \E c \in Callers : ran[c].nth = 1 /\ ran[c].found = Absent )
        => /\ Cardinality(Returned(TRUE))
                = Min(Cardinality(Callers), limit.Burst)
           /\ Cardinality(Returned(FALSE))
                = Cardinality(Callers) - Min(Cardinality(Callers), limit.Burst)

\* C5: a call that returned Allowed = false left the record of its key as
\* the run of its script found it.
C5_DeniedLeavesRecord ==
    \A c \in Callers :
        (pc[c] = "done" /\ out[c].err = "none" /\ ~out[c].result.Allowed
            /\ ran[c].at = now /\ ran[c].nth = inst[req[c].key].calls)
        => store[req[c].key] = ran[c].found

\* C5, the case: some call has returned Allowed = false.
C5_SomeCallDenied == Returned(FALSE) # {}

\* no call of RedisTokenBucket.Allow ever returns a Result: every run of
\* the script aborts, and every call returns an error
NoRedisResult == \A c \in Callers : pc[c] = "done" => out[c].err # "none"

\* C6: a call whose backend call failed (script error, transport failure or
\* cancelled context) returned that error and no Result.
C6_FailureIsReported ==
    \A c \in Callers :
        (pc[c] = "done" /\ reply[c].err # "none")
        => out[c] = [result |-> NoResult, err |-> reply[c].err]

\* C6, the case: a call whose context was cancelled after the server had
\* run its script has returned.
C6_Witness ==
    \E c \in Callers :
        pc[c] = "done" /\ reply[c].err = "ctx" /\ ran[c] # NoReq

\* C10: the first call for a key with no record is admitted with
\* Remaining = Burst - 1, and every admitted call has Remaining <= Burst - 1.
C10_FirstCallAdmitted ==
    \A c \in Callers :
        /\ (pc[c] = "done" /\ ran[c] # NoReq /\ ran[c].found = Absent
              /\ reply[c].err \notin TransportErrors)
           => /\ out[c].err = "none"
              /\ out[c].result.Allowed
              /\ out[c].result.Remaining = limit.Burst - 1
        /\ (pc[c] = "done" /\ out[c].err = "none" /\ out[c].result.Allowed)
           => out[c].result.Remaining <= limit.Burst - 1

---------------------------------------------------------------------------
(* Properties of the local token bucket.                                   *)

\* the first call of this instant for key k found the bucket unseen, or
\* idle long enough to be full: tokens + idle * rate/period >= burst
StartedFull(k) ==
    LET p == inst[k].pre
    IN  \/ p = Absent
        \/ inst[k].idle * limit.Rate * p.tokens.d
             >= (limit.Burst * p.tokens.d - p.tokens.n) * limit.Period

\* C2: of the calls made at one instant for a key that the first of them
\* found unseen or full, the first Burst are admitted and call number
\* Burst + 1 is denied.
C2_BurstBound ==
    \A k \in CallKeys :
        (inst[k].calls >= 1 /\ inst[k].calls <= limit.Burst + 1
            /\ StartedFull(k))
        => (res[k].Allowed <=> inst[k].calls <= limit.Burst)

\* C2, the case: call number Burst + 1 of an instant, on a bucket that had
\* been drawn from and then idle long enough to be full again, is denied.
C2_Witness ==
    \E k \in CallKeys :
        /\ inst[k].calls = limit.Burst + 1
        /\ inst[k].pre # Absent
        /\ RLt(inst[k].pre.tokens, FromInt(limit.Burst))
        /\ StartedFull(k)
        /\ ~res[k].Allowed

\* the tokens the first call of this instant for key k saw:
\* min(burst, t + elapsed * rate/period)
Available(k) ==
    RMin(FromInt(limit.Burst),
         RAdd(inst[k].pre.tokens,
              Rat(inst[k].idle * limit.Rate, limit.Period)))

\* C7: the first call after `idle` ticks without calls, on a bucket holding
\* t tokens, sees min(burst, t + idle * rate/period) tokens: it is admitted
\* iff that is at least 1, and leaves that (less the token it took); the
\* gain is at most idle * rate/period and the total at most burst.
C7_RefillProportionalCapped ==
    \A k \in CallKeys :
        (inst[k].calls = 1 /\ inst[k].pre # Absent)
        => LET t     == inst[k].pre.tokens
               avail == Available(k)
               took  == IF res[k].Allowed THEN 1 ELSE 0
           IN  /\ res[k].Allowed <=> RLeq(FromInt(1), avail)
               /\ buckets[k].tokens = RSub(avail, FromInt(took))
               /\ res[k].Allowed
                     => res[k].Remaining = Trunc(RSub(avail, FromInt(1)))
               /\ RLeq(avail, FromInt(limit.Burst))
               /\ RLeq(RSub(avail, t),
                       Rat(inst[k].idle * limit.Rate, limit.Period))

\* C7, the case: a call after an idle time that refilled the bucket by a
\* fraction of a token, short of the cap.
C7_Witness ==
    \E k \in CallKeys :
        /\ inst[k].calls = 1 /\ inst[k].pre # Absent
        /\ inst[k].idle >= 1
        /\ RLt(Available(k), FromInt(limit.Burst))
        /\ Available(k).d # 1
        /\ res[k].Allowed

\* the first call of this instant for key k found the key unseen, under
\* Limit{Rate: 5, Period: 10s, Burst: 10}
TBScenario(k) ==
    /\ limit = TBScenarioLimit
    /\ inst[k].calls >= 1
    /\ inst[k].pre = Absent

\* C8 as claimed: the first 10 calls are admitted with Remaining 9 down to
\* 0, and the 11th is denied with ResetAfter about 0.2 s (between 0.1 s and
\* 0.3 s).
C8_DeniedAfterFifthOfSecond ==
    \A k \in CallKeys :
        TBScenario(k)
        => /\ inst[k].calls <= 10
                => res[k] = Result(TRUE, 10 - inst[k].calls, 0)
           /\ inst[k].calls = 11
                => /\ ~res[k].Allowed
                   /\ TicksPerSec <= 10 * res[k].ResetAfter
                   /\ 10 * res[k].ResetAfter <= 3 * TicksPerSec

\* C8 as amended: the first 10 calls are admitted with Remaining 9 down to
\* 0, and the 11th is denied with Remaining 0 and ResetAfter 2 s.
C8_DeniedAfterTwoSeconds ==
    \A k \in CallKeys :
        TBScenario(k)
        => /\ inst[k].calls <= 10
                => res[k] = Result(TRUE, 10 - inst[k].calls, 0)
           /\ inst[k].calls = 11
                => res[k] = Result(FALSE, 0, 2 * TicksPerSec)

\* C8, the case: the 11th call of the scenario has been denied.
C8_Witness ==
    \E k \in CallKeys :
        TBScenario(k) /\ inst[k].calls = 11 /\ ~res[k].Allowed

---------------------------------------------------------------------------
(* Properties of the sliding window counter.                               *)

\* the last call for key k came less than one period after the first
InFirstPeriod(k) ==
    first[k].at >= 0 /\ lastCall[k] < first[k].at + limit.Period

\* C3: within one period of the first call for a key, no call is admitted
\* once Rate calls have been: at most Rate are admitted, a call is denied
\* only then, and a denied call returns Remaining = 0.
C3_HardCapInFirstPeriod ==
    \A k \in CallKeys :
        InFirstPeriod(k)
        => /\ first[k].admitted <= limit.Rate
           /\ first[k].calls > first[k].admitted
                => first[k].admitted = limit.Rate
           /\ ~res[k].Allowed
                => res[k].Remaining = 0 /\ first[k].admitted = limit.Rate

\* C3, the case: Rate calls were admitted at more than one instant of the
\* first period, and a later call of that period has been denied.
C3_Witness ==
    \E k \in CallKeys :
        /\ InFirstPeriod(k)
        /\ limit.Rate > 1
        /\ first[k].admitted = limit.Rate
        /\ first[k].at < lastCall[k]
        /\ inst[k].calls = 2
        /\ ~res[k].Allowed

\* the first call of this instant for key k found a window holding Rate
\* admissions, after the key had seen no call for `idle` ticks
AfterFullWindow(k) ==
    /\ inst[k].calls >= 1
    /\ inst[k].pre # Absent
    /\ inst[k].pre.currCount = limit.Rate

\* C4 as claimed: once a full period has passed without calls after a
\* burst of Rate admissions, Rate consecutive calls are admitted again.
C4_FreshBurstAfterOnePeriod ==
    \A k \in CallKeys :
        (AfterFullWindow(k) /\ inst[k].idle >= limit.Period
            /\ inst[k].calls <= limit.Rate)
        => res[k].Allowed

\* C4 as amended: once two full periods have passed since the start of the
\* window that holds the burst, the previous count is 0 and Rate
\* consecutive calls are admitted again.
C4_FreshBurstAfterTwoPeriods ==
    \A k \in CallKeys :
        (AfterFullWindow(k)
            /\ now >= inst[k].pre.currWindowStart + 2 * limit.Period
            /\ inst[k].calls <= limit.Rate)
        => /\ res[k].Allowed
           /\ windows[k].prevCount = 0
           /\ windows[k].currCount = inst[k].calls

\* C4, the case: the last of Rate consecutive calls, two periods after the
\* start of a window that held Rate admissions, has been admitted.
C4_Witness ==
    \E k \in CallKeys :
        /\ AfterFullWindow(k)
        /\ now >= inst[k].pre.currWindowStart + 2 * limit.Period
        /\ limit.Rate > 1
        /\ inst[k].calls = limit.Rate
        /\ res[k].Allowed

\* C9: a denied call returns ResetAfter = (currWindowStart + period) - now,
\* which is more than 0 and at most one period; and within one period of
\* the first call for a key (Rate = 100 and Period = 60 s among the
\* limits), the first Rate calls are admitted and every further call is
\* denied.
C9_DeniedUntilWindowEnd ==
    \A k \in CallKeys :
        /\ (res[k] # NoResult /\ ~res[k].Allowed)
           => /\ res[k].ResetAfter
                   = (windows[k].currWindowStart + limit.Period) - lastCall[k]
              /\ res[k].ResetAfter > 0
              /\ res[k].ResetAfter <= limit.Period
        /\ InFirstPeriod(k)
           => (res[k].Allowed <=> first[k].calls <= limit.Rate)

\* C9, the case: with Rate = 100 and Period = 60 s, 100 calls made within
\* the first second were admitted and call 101, later in the same period,
\* has been denied.
C9_Witness ==
    \E k \in CallKeys :
        /\ limit = SWScenarioLimit
        /\ InFirstPeriod(k)
        /\ first[k].calls = 101
        /\ inst[k].calls = 1
        /\ inst[k].pre # Absent /\ inst[k].pre.currCount = 100
        /\ lastCall[k] >= first[k].at + TicksPerSec
        /\ ~res[k].Allowed

---------------------------------------------------------------------------
(* Properties of every strategy.                                           *)

\* a Result has Remaining >= 0 and ResetAfter >= 0, and ResetAfter = 0 when
\* it is an admission
WellFormed(r) ==
    /\ r.Remaining >= 0
    /\ r.ResetAfter >= 0
    /\ r.Allowed => r.ResetAfter = 0

\* C11: every Result that Allow returned, whatever the strategy, has
\* Remaining >= 0 and ResetAfter >= 0, and has ResetAfter = 0 if Allowed.
C11_ResultWellFormed ==
    /\ \A k \in Keys : res[k] # NoResult => WellFormed(res[k])
    /\ \A c \in Callers :
          (pc[c] = "done" /\ out[c].err = "none") => WellFormed(out[c].result)

\* C11, the case: a token bucket has returned a denial that tells the caller
\* to wait, after an admission that left a whole token.
C11_Witness ==
    \E k \in CallKeys :
        /\ cfg.Limiter = "TokenBucket"
        /\ res[k] # NoResult /\ ~res[k].Allowed /\ res[k].ResetAfter > 0
        /\ inst[k].pre # Absent /\ RLeq(FromInt(1), inst[k].pre.tokens)

---------------------------------------------------------------------------
(* Properties of the middleware.                                           *)

\* the number a sequence of decimal digits denotes
RECURSIVE DecimalValue(_)
DecimalValue(s) ==
    IF s = <<>> THEN 0
    ELSE 10 * DecimalValue(SubSeq(s, 1, Len(s) - 1)) + s[Len(s)]

\* C12: a request that has been answered had next.ServeHTTP called once if
\* Allow returned no error and Allowed = true and not at all otherwise; on an
\* error the ErrorHandler answered, or http.Error with status 500 when the
\* Config has none; on a denial the RateLimitHandler answered, or http.Error
\* with status 429 and a Retry-After header of the whole seconds of
\* ResetAfter when the Config has none.
C12_NextOnlyWhenAllowed ==
    \A c \in Callers :
        pc[c] = "served" =>
            LET o == out[c]
                h == http[c]
            IN  /\ h.next = IF o.err = "none" /\ o.result.Allowed
                            THEN 1 ELSE 0
                /\ o.err # "none" =>
                      IF cfg.ErrorHandler = "nil"
                      THEN h.by = "http.Error" /\ h.status = 500
                      ELSE h.by = "ErrorHandler"
                /\ (o.err = "none" /\ ~o.result.Allowed) =>
                      IF cfg.RateLimitHandler = "nil"
                      THEN /\ h.by = "http.Error" /\ h.status = 429
                           /\ Len(h.retryAfter) >= 1
                           /\ DecimalValue(h.retryAfter)
                                = o.result.ResetAfter \div TicksPerSec
                      ELSE h.by = "RateLimitHandler"
                /\ (o.err = "none" /\ o.result.Allowed) => h.by = "next"

\* C12, the case: a denial that asked for a second or more of waiting has
\* been answered by the default 429 response.
C12_Witness ==
    \E c \in Callers :
        /\ pc[c] = "served"
        /\ out[c].err = "none" /\ ~out[c].result.Allowed
        /\ out[c].result.ResetAfter >= TicksPerSec
        /\ http[c].status = 429 /\ http[c].next = 0

---------------------------------------------------------------------------
(* Properties of the token bucket under changing limits.                   *)

\* an Allow call for key k is the step taken
Called(k) == inst'[k].calls = inst[k].calls + 1

\* C13: every TokenBucket.Allow call, whatever limits the calls before it
\* passed, leaves the bucket of its key with 0 <= tokens <= the Burst of
\* its own limit and with lastUpdate = the time of the call.
C13_TokensWithinBurst ==
    [][\A k \in Keys :
          Called(k) =>
              /\ buckets'[k] # Absent
              /\ RLeq(FromInt(0), buckets'[k].tokens)
              /\ RLeq(buckets'[k].tokens, FromInt(limit.Burst))
              /\ buckets'[k].lastUpdate = now]_vars

\* C13, the case: a call has found more tokens than the Burst of its limit
\* (left by calls under a limit with a larger Burst), and was admitted.
C13_Witness ==
    \E k \in CallKeys :
        /\ inst[k].calls = 1 /\ res[k].Allowed
        /\ inst[k].pre # Absent
        /\ RLt(FromInt(limit.Burst), inst[k].pre.tokens)
        /\ buckets[k].tokens = FromInt(limit.Burst - 1)
        /\ buckets[k].lastUpdate = now

---------------------------------------------------------------------------
(* Properties of the token bucket's ResetAfter.                            *)

\* C14: when the call before this one, made at time t = lastCall, was
\* denied with ResetAfter = d, this call is admitted if it is made at a
\* time >= t + d and denied if it is made before t + d.
C14_ResetAfterIsMinimumWait ==
    [][\A k \in Keys :
          (Called(k) /\ res[k] # NoResult /\ ~res[k].Allowed) =>
              (res'[k].Allowed <=> now >= lastCall[k] + res[k].ResetAfter)]_vars

---------------------------------------------------------------------------
(* Properties of the sliding window's roll-forward.                        *)

\* C16: a call that finds a window started one period or more before it,
\* windowsPassed = (now - currWindowStart) \div period, leaves prevCount =
\* the old currCount if windowsPassed = 1 and 0 if it is more, a start
\* advanced by windowsPassed periods, and a currCount that counts only this
\* call, admitted against prevCount * weight alone; and after every call
\* 0 <= (time of the call) - currWindowStart < period.
C16_RollForward ==
    \A k \in Keys :
        windows[k] # Absent =>
            LET w == windows[k]
                pre == inst[k].pre
            IN  /\ 0 <= lastCall[k] - w.currWindowStart
                /\ lastCall[k] - w.currWindowStart < limit.Period
                /\ ( /\ inst[k].calls = 1 /\ pre # Absent
                     /\ now - pre.currWindowStart >= limit.Period ) =>
                       LET windowsPassed ==
                               (now - pre.currWindowStart) \div limit.Period
                       IN  /\ w.prevCount = IF windowsPassed = 1
                                            THEN pre.currCount ELSE 0
                           /\ w.currWindowStart = pre.currWindowStart
                                  + windowsPassed * limit.Period
                           /\ w.currCount = IF res[k].Allowed THEN 1 ELSE 0
                           /\ res[k].Allowed <=>
                                  w.prevCount * (limit.Period
                                                  - (now - w.currWindowStart))
                                    < limit.Rate * limit.Period

\* C16, the case: a call has found a window with admissions that started
\* more than two periods before it, not a whole number of periods.
C16_Witness ==
    \E k \in CallKeys :
        /\ inst[k].calls = 1 /\ inst[k].pre # Absent
        /\ inst[k].pre.currCount >= 1
        /\ now - inst[k].pre.currWindowStart > 2 * limit.Period
        /\ (now - inst[k].pre.currWindowStart) % limit.Period # 0
        /\ windows[k].prevCount = 0

---------------------------------------------------------------------------
(* Properties of the local strategies under concurrent callers.            *)

\* caller c is inside the critical section of Allow
InSection(c) == pc[c] \in {"locked", "loaded", "updated"}

\* the per-key table of the limiter in use, and the calls it admits at one
\* instant on a key it has not seen
Table == IF cfg.Limiter = "TokenBucket" THEN buckets ELSE windows
Capacity == IF cfg.Limiter = "TokenBucket" THEN limit.Burst ELSE limit.Rate

\* the entry a serial execution of c's call leaves, from the entry c loaded
Written(c) ==
    IF cfg.Limiter = "TokenBucket"
    THEN Take(Refill(loc[c].entry, limit, loc[c].at), limit).bucket
    ELSE Count(Roll(loc[c].entry, limit, loc[c].at), limit, loc[c].at).window

\* caller c has returned from a call for key k whose critical section was
\* among the first N of the current instant
LocalRacedNow(c, k) ==
    /\ pc[c] = "done"
    /\ req[c].key = k
    /\ ran[c].at = now
    /\ ran[c].nth <= Cardinality(Callers)

\* C17: at most one caller is inside the critical section and it holds the
\* mutex; from its load to its update the entry of its key is the one it
\* loaded, and until it unlocks the entry is the one it wrote, so the calls
\* take effect one after the other in the order of their locks; and when
\* all N callers call at one instant for a key not seen before, exactly
\* min(N, capacity) of them are admitted.
C17_CallsSerialized ==
    /\ Cardinality({c \in Callers : InSection(c)}) <= 1
    /\ \A c \in Callers :
          /\ InSection(c) => mu = c
          /\ pc[c] = "loaded" => Table[req[c].key] = loc[c].entry
          /\ pc[c] = "updated" => Table[req[c].key] = Written(c)
    /\ \A k \in CallKeys :
          ( /\ \A c \in Callers : LocalRacedNow(c, k)
            /\ \E c \in Callers : ran[c].nth = 1 /\ ran[c].found = Absent )
          => Cardinality(Returned(TRUE))
                = Min(Cardinality(Callers), Capacity)

\* C17, the case: both callers have called a token bucket at one instant
\* for a new key, and one was admitted and the other denied.
C17_Witness ==
    \E k \in CallKeys :
        /\ cfg.Limiter = "TokenBucket"
        /\ \A c \in Callers : LocalRacedNow(c, k)
        /\ \E c \in Callers : ran[c].nth = 1 /\ ran[c].found = Absent
        /\ Cardinality(Returned(TRUE)) = 1
        /\ Cardinality(Returned(FALSE)) = 1

---------------------------------------------------------------------------
(* Properties of the local strategies with several keys.                   *)

\* the Result a call for key k returns, from the entry of k alone
Decision(k) ==
    IF cfg.Limiter = "TokenBucket"
    THEN Take(Refill(IF buckets[k] = Absent THEN NewBucket(limit, now)
                     ELSE buckets[k], limit, now), limit).result
    ELSE Count(Roll(IF windows[k] = Absent THEN NewWindow(now)
                    ELSE windows[k], limit, now), limit, now).result

\* C19: an Allow call for key k leaves k with an entry and leaves the entry
\* of every other key as it was, no step removes an entry, and the Result
\* of the call is the one the entry of k alone gives.
C19_OtherKeysUntouched ==
    [][\A k \in Keys :
          /\ Called(k) =>
                /\ Table'[k] # Absent
                /\ res'[k] = Decision(k)
                /\ \A j \in Keys \ {k} :
                      buckets'[j] = buckets[j] /\ windows'[j] = windows[j]
          /\ buckets[k] # Absent => buckets'[k] # Absent
          /\ windows[k] # Absent => windows'[k] # Absent]_vars

\* C19, the case: two keys of a token bucket were called at one instant, and
\* the call of one was admitted and the call of the other denied.
C19_Witness ==
    \E k \in Keys : \E j \in Keys \ {k} :
        /\ cfg.Limiter = "TokenBucket"
        /\ lastCall[k] = now /\ lastCall[j] = now
        /\ res[k].Allowed /\ ~res[j].Allowed
        /\ buckets[k] # Absent /\ buckets[j] # Absent
        /\ inst[k].calls = 1 /\ inst[j].calls = 2

---------------------------------------------------------------------------
(* Properties of the sliding window's counts.                              *)

\* C20: every window has 0 <= currCount <= Rate and 0 <= prevCount <= Rate,
\* and a call is admitted only when prevCount * weight + currCount < Rate,
\* with the currCount before the call and weight = (period - time into the
\* current window) / period.
C20_CountsWithinRate ==
    \A k \in Keys :
        windows[k] # Absent =>
            LET w == windows[k]
                timeInCurrent == lastCall[k] - w.currWindowStart
            IN  /\ 0 <= w.currCount /\ w.currCount <= limit.Rate
                /\ 0 <= w.prevCount /\ w.prevCount <= limit.Rate
                /\ res[k].Allowed =>
                      w.prevCount * (limit.Period - timeInCurrent)
                        + (w.currCount - 1) * limit.Period
                          < limit.Rate * limit.Period

\* C20, the case: a call has been admitted into a window that follows a
\* window with Rate admissions.
C20_Witness ==
    \E k \in CallKeys :
        /\ windows[k] # Absent
        /\ windows[k].prevCount = limit.Rate
        /\ windows[k].currCount >= 1
        /\ lastCall[k] = now /\ res[k].Allowed

====
